---- MODULE Spec2Model ----
(***************************************************************************)
(* Community feed backend: the Like toggle under concurrent requests, the  *)
(* comment tree builder and the 24-hour karma leaderboard.                  *)
(*                                                                         *)
(* The store is the PostgreSQL database of settings.py at its default      *)
(* isolation level (read committed).  A Like row carries xmin (the call    *)
(* whose transaction inserted it, or Committed) and xmax (the call whose   *)
(* open transaction deleted it, or NoTx), as PostgreSQL's row versions do. *)
(* A call of LikeViewSet.toggle is identified by its index in calls and    *)
(* owns at most one transaction.                                           *)
(***************************************************************************)
EXTENDS Integers, Sequences, FiniteSets, TLC

VARIABLES users, posts, comments, likes, calls, now, last, tree, board, seq

vars == <<users, posts, comments, likes, calls, now, last, tree, board, seq>>

(* ---------------------------- bounds ---------------------------------- *)
MaxUsers == 2
MaxPosts == 1
MaxComments == 1
MaxCalls == 3
MaxTreeComments == 3
MaxBoardUsers == 6

(* ------------------------- program constants -------------------------- *)
NULL == -1
Committed == 0
NoTx == 0
KarmaWindowHours == 24
PostLikeKarma == 5
CommentLikeKarma == 1
TopN == 5

(* Python truthiness of an optional integer: None and 0 are falsy.        *)
Truthy(x) == x # NULL /\ x # 0

(* ------------------------------ store --------------------------------- *)
PostIds == {p.id : p \in posts}
CommentIds == {c.id : c \in comments}

PostById(i) == CHOOSE p \in posts : p.id = i
CommentById(i) == CHOOSE c \in comments : c.id = i

(* Rows a read-committed statement sees: committed inserts; a delete by a  *)
(* transaction still open is not visible to the others.                    *)
LikeTable == {r \in likes : r.xmin = Committed}

(* --------------------------- Like toggle ------------------------------ *)
(* LikeSerializer.validate *)
LikeSerializer_validate(post_id, comment_id) ==
    IF (post_id = NULL) = (comment_id = NULL) THEN FALSE
    ELSE IF Truthy(post_id) /\ post_id \notin PostIds THEN FALSE
    ELSE IF Truthy(comment_id) /\ comment_id \notin CommentIds THEN FALSE
    ELSE TRUE

FilterMatchesAnyUser(r, user, post_id, comment_id) ==
    IF Truthy(post_id) THEN r.post = post_id ELSE r.comment = comment_id

(* filter_kwargs of toggle: a None value is the SQL test IS NULL *)
FilterMatches(r, user, post_id, comment_id) ==
    /\ r.user = user
    /\ IF Truthy(post_id) THEN r.post = post_id ELSE r.comment = comment_id

(* create_kwargs of toggle: the row Like.objects.create would insert *)
CreateRow(c, user, post_id, comment_id) ==
    [id |-> c, user |-> user,
     post |-> IF Truthy(post_id) THEN post_id ELSE NULL,
     comment |-> IF Truthy(post_id) THEN NULL ELSE comment_id,
     created_at |-> now, xmin |-> c, xmax |-> NoTx]

(* Like.clean: exactly one target is set.  Reading self.comment with a     *)
(* comment_id that names no row raises Comment.DoesNotExist.               *)
Like_clean(row) ==
    IF row.post # NULL /\ row.post \notin PostIds THEN "DoesNotExist"
    ELSE IF row.comment # NULL /\ row.comment \notin CommentIds THEN "DoesNotExist"
    ELSE IF (row.post = NULL) = (row.comment = NULL) THEN "ValidationError"
    ELSE "ok"

UniqueConflictsNone(row) == {}

(* unique_user_post_like / unique_user_comment_like: the rows of the       *)
(* index that collide with row                                             *)
UniqueConflicts(row) ==
    {r \in likes :
        /\ r.user = row.user
        /\ \/ row.post # NULL /\ r.post = row.post
           \/ row.comment # NULL /\ r.comment = row.comment}

(* the insert waits for an open transaction that inserted or deleted a     *)
(* colliding row                                                           *)
InsertBlocked(c, row) ==
    \E r \in UniqueConflicts(row) :
        \/ r.xmin \notin {Committed, c}
        \/ r.xmin = Committed /\ r.xmax \notin {NoTx, c}

UniqueViolationNever(c, row) == FALSE

(* after the wait: a colliding row that is live raises IntegrityError      *)
UniqueViolation(c, row) ==
    \E r \in UniqueConflicts(row) : r.xmax # c

CommitTxKeepsDeleted(c, rows) ==
    {IF r.xmin = c THEN [r EXCEPT !.xmin = Committed]
     ELSE IF r.xmax = c THEN [r EXCEPT !.xmax = NoTx] ELSE r : r \in rows}

(* transaction.atomic() exits normally *)
CommitTx(c, rows) ==
    {IF r.xmin = c THEN [r EXCEPT !.xmin = Committed] ELSE r :
        r \in {x \in rows : x.xmax # c}}

(* transaction.atomic() exits with an exception *)
RollbackTx(c, rows) ==
    {IF r.xmax = c THEN [r EXCEPT !.xmax = NoTx] ELSE r :
        r \in {x \in rows : x.xmin # c}}

Active == {i \in DOMAIN calls : calls[i].pc # "done"}
InTx == {i \in DOMAIN calls : calls[i].pc \in {"deleting", "create", "commit"}}


(* the committed rows the filter of a request selects *)
KeyRows(rows, user, post_id, comment_id) ==
    {r \in rows : r.xmin = Committed
                  /\ r.user = user
                  /\ IF Truthy(post_id) THEN r.post = post_id
                     ELSE r.comment = comment_id}

(* Post.like_count / Comment.like_count of the target of a request *)
like_count(rows, post_id, comment_id) ==
    Cardinality({r \in rows : r.xmin = Committed
                     /\ IF Truthy(post_id) THEN r.post = post_id
                        ELSE r.comment = comment_id})

(* toggle, lines 173-178: the request arrives and is validated.  The       *)
(* fields keyBefore .. prev record what the call met, for the properties.  *)
Toggle_Request(u, post_id, comment_id) ==
    /\ u \in users
    /\ Len(calls) < MaxCalls
    /\ LET c == Len(calls) + 1
           ok == LikeSerializer_validate(post_id, comment_id)
           kb == Cardinality(KeyRows(likes, u, post_id, comment_id))
           cb == like_count(likes, post_id, comment_id)
           rec == [user |-> u, post_id |-> post_id, comment_id |-> comment_id,
                   pc |-> IF ok THEN "atomic" ELSE "done",
                   status |-> IF ok THEN "none" ELSE "validation_error",
                   scan |-> {}, deleted |-> 0, inserted |-> FALSE,
                   uniq |-> FALSE, tries |-> 0,
                   keyBefore |-> kb, keyAfter |-> kb,
                   cntBefore |-> cb, cntAfter |-> cb,
                   rivals |-> IF ok THEN Active ELSE {},
                   txrivals |-> {},
                   prev |-> last]
       IN /\ calls' = Append(
                 [i \in DOMAIN calls |->
                     IF ok /\ i \in Active
                     THEN [calls[i] EXCEPT !.rivals = @ \cup {c}]
                     ELSE calls[i]], rec)
          /\ last' = IF ok THEN 0 ELSE c
    /\ UNCHANGED <<users, posts, comments, likes, now, tree, board, seq>>

(* toggle, lines 181-194: the transaction begins and the DELETE statement  *)
(* takes its snapshot of the matching rows                                 *)
Toggle_DeleteScan(c) ==
    /\ c \in DOMAIN calls
    /\ calls[c].pc = "atomic"
    /\ LET me == calls[c]
           seen == {r.id : r \in {x \in LikeTable :
                       FilterMatches(x, me.user, me.post_id, me.comment_id)}}
       IN calls' = [i \in DOMAIN calls |->
                      IF i = c
                      THEN [me EXCEPT !.pc = "deleting", !.scan = seen,
                                      !.txrivals = InTx]
                      ELSE IF i \in InTx
                      THEN [calls[i] EXCEPT !.txrivals = @ \cup {c}]
                      ELSE calls[i]]
    /\ last' = 0
    /\ UNCHANGED <<users, posts, comments, likes, now, tree, board, seq>>

(* toggle, lines 194-201: the DELETE locks the rows of its snapshot,       *)
(* waiting for open transactions that deleted one of them, and removes     *)
(* those that are still there                                              *)
Toggle_DeleteRows(c) ==
    /\ c \in DOMAIN calls
    /\ calls[c].pc = "deleting"
    /\ LET me == calls[c]
           found == {r \in likes : r.id \in me.scan}
       IN /\ \A r \in found : r.xmax \in {NoTx, c}
          /\ likes' = {IF r \in found THEN [r EXCEPT !.xmax = c] ELSE r :
                          r \in likes}
          /\ calls' = [calls EXCEPT ![c] =
                 [me EXCEPT !.deleted = Cardinality(found),
                            !.pc = IF Cardinality(found) > 0
                                   THEN "commit" ELSE "create",
                            !.status = IF Cardinality(found) > 0
                                       THEN "unliked" ELSE "none"]]
    /\ last' = 0
    /\ UNCHANGED <<users, posts, comments, now, tree, board, seq>>

OnIntegrityErrorUnhandled == "server_error"

(* the response of the except clause, lines 210-215 *)
OnIntegrityError == "conflict"

(* toggle, lines 203-215: Like.objects.create, that is Like.save with      *)
(* Like.clean, then the INSERT under the unique constraints; an exception  *)
(* leaves transaction.atomic(), which rolls back                           *)
Toggle_Create(c) ==
    /\ c \in DOMAIN calls
    /\ calls[c].pc = "create"
    /\ LET me == calls[c]
           row == CreateRow(c, me.user, me.post_id, me.comment_id)
           fail(st, u) ==
               LET after == RollbackTx(c, likes)
               IN /\ likes' = after
                  /\ calls' = [calls EXCEPT ![c] =
                         [me EXCEPT !.pc = "done", !.status = st, !.uniq = u,
                              !.tries = @ + 1,
                              !.keyAfter = Cardinality(KeyRows(after, me.user,
                                               me.post_id, me.comment_id)),
                              !.cntAfter = like_count(after, me.post_id,
                                                       me.comment_id)]]
                  /\ last' = c
       IN IF Like_clean(row) # "ok"
          THEN fail("server_error", FALSE)
          ELSE /\ ~InsertBlocked(c, row)
               /\ IF UniqueViolation(c, row)
                  THEN fail(OnIntegrityError, TRUE)
                  ELSE /\ likes' = likes \cup {row}
                       /\ calls' = [calls EXCEPT ![c] =
                              [me EXCEPT !.pc = "commit", !.status = "liked",
                                         !.inserted = TRUE, !.tries = @ + 1]]
                       /\ last' = 0
    /\ UNCHANGED <<users, posts, comments, now, tree, board, seq>>

(* toggle, lines 198-208: the return leaves transaction.atomic(), which    *)
(* commits, and the response goes out                                      *)
Toggle_Commit(c) ==
    /\ c \in DOMAIN calls
    /\ calls[c].pc = "commit"
    /\ LET me == calls[c]
           after == CommitTx(c, likes)
       IN /\ likes' = after
          /\ calls' = [calls EXCEPT ![c] =
                 [me EXCEPT !.pc = "done",
                      !.keyAfter = Cardinality(KeyRows(after, me.user,
                                       me.post_id, me.comment_id)),
                      !.cntAfter = like_count(after, me.post_id,
                                               me.comment_id)]]
    /\ last' = c
    /\ UNCHANGED <<users, posts, comments, now, tree, board, seq>>

(* the ids a client can put in a request: null, 0, the ids of the store    *)
(* and one id beyond them                                                  *)
IdInputs(n) == {NULL} \cup (0 .. n + 1)

TreeIdle == [state |-> "idle"]
BoardIdle == [state |-> "idle"]

(* seq holds the last value each id sequence of the database has issued   *)
SeqAt(p, c, l) == [post |-> p, comment |-> c, like |-> l]

(* The store the toggle requests run against: MaxUsers registered users,   *)
(* MaxPosts posts and MaxComments top-level comments on post 1, no Like.   *)
Init ==
    /\ users = 1 .. MaxUsers
    /\ posts = {[id |-> i, author |-> ((i - 1) % MaxUsers) + 1] :
                   i \in 1 .. MaxPosts}
    /\ comments = {[id |-> i, post |-> 1, author |-> (i % MaxUsers) + 1,
                    parent |-> NULL] : i \in 1 .. MaxComments}
    /\ likes = {}
    /\ calls = <<>>
    /\ now = 0
    /\ last = 0
    /\ tree = TreeIdle
    /\ board = BoardIdle
    /\ seq = SeqAt(MaxPosts, MaxComments, 0)

Next ==
    \/ \E u \in users, p \in IdInputs(MaxPosts), c \in IdInputs(MaxComments) :
           Toggle_Request(u, p, c)
    \/ \E c \in DOMAIN calls : Toggle_DeleteScan(c)
    \/ \E c \in DOMAIN calls : Toggle_DeleteRows(c)
    \/ \E c \in DOMAIN calls : Toggle_Create(c)
    \/ \E c \in DOMAIN calls : Toggle_Commit(c)

Spec == Init /\ [][Next]_vars

(* ------------------------ properties of the toggle -------------------- *)
Done == {i \in DOMAIN calls : calls[i].pc = "done"}

(* the request names exactly one target and that target exists *)
ValidRequest(post_id, comment_id) ==
    \/ post_id \in PostIds /\ comment_id = NULL
    \/ post_id = NULL /\ comment_id \in CommentIds

OnTarget(i) == ValidRequest(calls[i].post_id, calls[i].comment_id)

SameKey(i, j) ==
    /\ calls[i].user = calls[j].user
    /\ calls[i].post_id = calls[j].post_id
    /\ calls[i].comment_id = calls[j].comment_id

(* call x acts on the Like row of call i: it is a toggle of the same user  *)
(* whose filter selects that row                                           *)
ActsOnRowOf(x, i) ==
    /\ calls[x].user = calls[i].user
    /\ \/ SameKey(x, i)
       \/ /\ ~Truthy(calls[x].post_id)
          /\ calls[x].comment_id = NULL
          /\ calls[i].post_id # NULL

(* the calls other than i and j that act on the row of i while the         *)
(* transaction of i or of j is open                                        *)
Intruders(i, j) ==
    {x \in (calls[i].txrivals \cup calls[j].txrivals) \ {i, j} :
        ActsOnRowOf(x, i)}

Statuses(i, j) == {calls[i].status, calls[j].status}

(* C1: in every reachable state the Like table holds at most one row per   *)
(* (user, post) and at most one row per (user, comment), whatever the      *)
(* interleaving of the toggle requests.                                    *)
C1_UniqueLikes ==
    \A r1 \in LikeTable : \A r2 \in LikeTable :
        (/\ r1.user = r2.user
         /\ \/ r1.post # NULL /\ r1.post = r2.post
            \/ r1.comment # NULL /\ r1.comment = r2.comment)
        => r1 = r2

(* three toggles of one user on one target had their transactions open     *)
(* together, all have answered, and the row is in the table                *)
C1_Witness ==
    \E i \in Done : \E j \in Done : \E k \in Done :
        /\ i < j /\ j < k
        /\ OnTarget(i) /\ SameKey(i, j) /\ SameKey(i, k)
        /\ {j, k} \subseteq calls[i].txrivals
        /\ k \in calls[j].txrivals
        /\ \E r \in LikeTable :
               FilterMatches(r, calls[i].user, calls[i].post_id,
                             calls[i].comment_id)

Rivals(i) == {x \in calls[i].rivals : ActsOnRowOf(x, i)}

C4_TwoTogglesRestoreCount ==
    \A j \in Done :
        LET i == calls[j].prev
        IN (/\ i # 0
            /\ OnTarget(j) /\ SameKey(i, j)
            /\ calls[i].rivals = {} /\ calls[j].rivals = {})
           => /\ calls[j].cntAfter = calls[i].cntBefore
              /\ Statuses(i, j) = {"liked", "unliked"}
              /\ calls[i].status # calls[j].status

(* the pair unliked-then-liked, on a target another user likes as well     *)
C4_Witness ==
    \E j \in Done :
        LET i == calls[j].prev
        IN /\ i # 0 /\ OnTarget(j) /\ SameKey(i, j)
           /\ calls[i].rivals = {} /\ calls[j].rivals = {}
           /\ calls[i].status = "unliked" /\ calls[j].status = "liked"
           /\ calls[j].cntAfter = 1

(* C5 as stated: a request that supplies both ids, or neither, or an id    *)
(* (0 included) that names no post or comment fails with a validation      *)
(* error and neither deletes nor inserts a Like row.                       *)
C5_InvalidRequestRejected ==
    \A i \in Done :
        ~OnTarget(i)
        => /\ calls[i].status = "validation_error"
           /\ calls[i].deleted = 0
           /\ ~calls[i].inserted

(* the part of C5 about the table alone *)
C5_InvalidRequestLeavesTable ==
    \A i \in Done : ~OnTarget(i) => calls[i].deleted = 0 /\ ~calls[i].inserted

(* C6: a toggle whose insert hits the uniqueness constraint reports the    *)
(* conflict, not a validation error nor an unhandled fault, leaves no      *)
(* change of its transaction in the Like table and is not retried.         *)
C6_ConflictReported ==
    \A i \in DOMAIN calls :
        calls[i].uniq
        => /\ calls[i].pc = "done"
           /\ calls[i].status = "conflict"
           /\ calls[i].tries = 1
           /\ calls[i].deleted = 0 /\ ~calls[i].inserted
           /\ \A r \in likes : r.xmin # i /\ r.xmax # i /\ r.id # i

(* the insert lost against a concurrent toggle that inserted the same like *)
C6_Witness ==
    \E i \in Done : \E j \in Done :
        /\ calls[i].uniq /\ calls[i].status = "conflict"
        /\ j \in calls[i].txrivals /\ SameKey(i, j)
        /\ calls[j].status = "liked"
        /\ \E r \in LikeTable : r.id = j

(* ------------------------- comment tree builder ----------------------- *)
(* tree.prefetched is post._prefetched_comments: the comments of the post  *)
(* as [id, parent_id], in the order the prefetch delivered them.           *)
(* tree.has is the set of comments that carry _prefetched_replies and      *)
(* tree.replies their lists; tree.top is the list get_comments serializes. *)

Range(s) == {s[k] : k \in DOMAIN s}

TreeIds(prefetched) == {prefetched[k].id : k \in DOMAIN prefetched}

(* one pass of the for loop of _build_comment_tree, lines 135-143 *)
AttachReply(st, comment, ids) ==
    LET st1 == [has |-> st.has \cup {comment.id},
                replies |-> [st.replies EXCEPT ![comment.id] = <<>>]]
    IN IF Truthy(comment.parent_id) /\ comment.parent_id \in ids
       THEN LET p == comment.parent_id
                st2 == IF p \notin st1.has
                       THEN [has |-> st1.has \cup {p},
                             replies |-> [st1.replies EXCEPT ![p] = <<>>]]
                       ELSE st1
            IN [st2 EXCEPT !.replies[p] = Append(@, comment.id)]
       ELSE st1

RECURSIVE BuildLoop(_, _, _)
BuildLoop(prefetched, k, st) ==
    IF k > Len(prefetched) THEN st
    ELSE BuildLoop(prefetched, k + 1,
                   AttachReply(st, prefetched[k], TreeIds(prefetched)))

(* PostViewSet._build_comment_tree *)
build_comment_tree(prefetched) ==
    BuildLoop(prefetched, 1,
              [has |-> {}, replies |-> [i \in TreeIds(prefetched) |-> <<>>]])

RECURSIVE SelectIds(_, _)
SelectIds(prefetched, keep) ==
    IF prefetched = <<>> THEN <<>>
    ELSE (IF Head(prefetched).id \in keep THEN <<Head(prefetched).id>>
          ELSE <<>>) \o SelectIds(Tail(prefetched), keep)

get_commentsWithOrphans(prefetched) ==
    SelectIds(prefetched,
        {prefetched[k].id : k \in {x \in DOMAIN prefetched :
            prefetched[x].parent_id \notin TreeIds(prefetched)}})

(* PostDetailSerializer.get_comments: the comments with parent_id None *)
get_comments(prefetched) ==
    SelectIds(prefetched,
        {prefetched[k].id : k \in {x \in DOMAIN prefetched :
            prefetched[x].parent_id = NULL}})

(* PostViewSet.retrieve: build the tree, then serialize from the top;      *)
(* CommentSerializer.get_replies reads _prefetched_replies where present   *)
Retrieve ==
    /\ tree.state = "fetched"
    /\ LET built == build_comment_tree(tree.prefetched)
       IN tree' = [state |-> "served", prefetched |-> tree.prefetched,
                   has |-> built.has, replies |-> built.replies,
                   top |-> get_comments(tree.prefetched)]
    /\ UNCHANGED <<users, posts, comments, likes, calls, now, last, board,
                   seq>>

(* the comment sets of one post: ids 1..n, each parent_id null, an older   *)
(* comment of the set, or the id n+1 that is not in the set; in any order  *)
TreeInputs ==
    UNION {
        {[k \in 1 .. n |-> [id |-> ord[k], parent_id |-> par[ord[k]]]] :
            ord \in {o \in [1 .. n -> 1 .. n] :
                        \A a \in 1 .. n : \A b \in 1 .. n :
                            o[a] = o[b] => a = b},
            par \in {f \in [1 .. n -> {NULL} \cup (1 .. n + 1)] :
                        \A i \in 1 .. n :
                            f[i] = NULL \/ f[i] < i \/ f[i] = n + 1}} :
        n \in 1 .. MaxTreeComments}

InitTree ==
    /\ users = 1 .. MaxUsers
    /\ posts = {}
    /\ comments = {}
    /\ likes = {}
    /\ calls = <<>>
    /\ now = 0
    /\ last = 0
    /\ board = BoardIdle
    /\ seq = SeqAt(0, 0, 0)
    /\ \E input \in TreeInputs :
           tree = [state |-> "fetched", prefetched |-> input]

NextTree == Retrieve

SpecTree == InitTree /\ [][NextTree]_vars

(* the forest that is serialized, flattened depth-first *)
RECURSIVE Flatten(_, _)
Flatten(ids, replies) ==
    IF ids = <<>> THEN <<>>
    ELSE <<Head(ids)>> \o Flatten(replies[Head(ids)], replies)
                       \o Flatten(Tail(ids), replies)

Occurrences(s, x) == Cardinality({k \in DOMAIN s : s[k] = x})

NoMissingParent(prefetched) ==
    \A k \in DOMAIN prefetched :
        prefetched[k].parent_id \in TreeIds(prefetched) \cup {NULL}

Orphans(prefetched) ==
    {prefetched[k].id : k \in {x \in DOMAIN prefetched :
        prefetched[x].parent_id \notin TreeIds(prefetched) \cup {NULL}}}

(* C7 as stated: for every comment set without missing parents, in every   *)
(* input order, the forest holds every comment exactly once and each       *)
(* comment sits directly under the comment its parent_id names, or at top  *)
(* level when parent_id is null.                                           *)
C7_ForestKeepsEveryComment ==
    (tree.state = "served" /\ NoMissingParent(tree.prefetched))
    => /\ \A i \in TreeIds(tree.prefetched) :
              Occurrences(Flatten(tree.top, tree.replies), i) = 1
       /\ \A k \in DOMAIN tree.prefetched :
              LET c == tree.prefetched[k]
              IN /\ (c.parent_id = NULL) <=> (c.id \in Range(tree.top))
                 /\ \A p \in TreeIds(tree.prefetched) :
                        (c.parent_id = p) <=> (c.id \in Range(tree.replies[p]))

(* C8: a comment whose parent_id names an id absent from the set appears   *)
(* in no reply list and not in the top-level list of the output.           *)
C8_OrphanExcluded ==
    tree.state = "served"
    => \A o \in Orphans(tree.prefetched) :
           /\ o \notin Range(tree.top)
           /\ \A p \in TreeIds(tree.prefetched) : o \notin Range(tree.replies[p])
           /\ o \notin Range(Flatten(tree.top, tree.replies))

(* a served tree with an orphan that has a reply of its own, next to a     *)
(* top-level comment                                                       *)
C8_Witness ==
    /\ tree.state = "served"
    /\ \E o \in Orphans(tree.prefetched) : tree.replies[o] # <<>>
    /\ tree.top # <<>>

(* ----------------------------- leaderboard ---------------------------- *)
(* time_threshold = timezone.now() - timedelta(hours=24) *)
time_threshold == now - KarmaWindowHours

(* Coalesce(subquery, Value(0)); a subquery without a row yields NULL *)
Coalesce(x, d) == IF x = NULL THEN d ELSE x

post_karma_sqNoWindow(u) ==
    LET rows == {r \in LikeTable :
                    r.post # NULL /\ PostById(r.post).author = u}
    IN IF rows = {} THEN NULL ELSE Cardinality(rows) * PostLikeKarma

(* post_karma_sq: the Likes on the posts of u since the threshold, grouped *)
(* by the author, Count('id') * 5                                          *)
post_karma_sq(u) ==
    LET rows == {r \in LikeTable :
                    /\ r.post # NULL
                    /\ PostById(r.post).author = u
                    /\ r.created_at >= time_threshold}
    IN IF rows = {} THEN NULL ELSE Cardinality(rows) * PostLikeKarma

(* comment_karma_sq: the same over the comments of u, Count('id') * 1 *)
comment_karma_sq(u) ==
    LET rows == {r \in LikeTable :
                    /\ r.comment # NULL
                    /\ CommentById(r.comment).author = u
                    /\ r.created_at >= time_threshold}
    IN IF rows = {} THEN NULL ELSE Cardinality(rows) * CommentLikeKarma

(* the annotation karma_24h = pk_karma + ck_karma *)
karma_24h(u) ==
    Coalesce(post_karma_sq(u), 0) + Coalesce(comment_karma_sq(u), 0)

karma_filterAll(u) == TRUE

(* filter(karma_24h__gt=0) *)
karma_filter(u) == karma_24h(u) > 0

(* order_by('-karma_24h')[:n]: the first n users of every order of S by   *)
(* non-increasing karma k; the database is free in the order of equal keys *)
RECURSIVE OrderByKarmaDescLimit(_, _, _)
OrderByKarmaDescLimit(S, k, n) ==
    IF S = {} \/ n = 0 THEN {<<>>}
    ELSE UNION {
        {<<u>> \o rest : rest \in OrderByKarmaDescLimit(S \ {u}, k, n - 1)} :
            u \in {x \in S : \A y \in S : k[x] >= k[y]}}

(* LeaderboardViewSet.top: one query, serialized with                      *)
(* UserLeaderboardSerializer                                               *)
Top ==
    /\ board.state = "idle"
    /\ LET annotated == [u \in users |-> karma_24h(u)]
       IN \E ord \in OrderByKarmaDescLimit(
                          {u \in users : karma_filter(u)}, annotated, TopN) :
              board' = [state |-> "served", at |-> now,
                        rows |-> [k \in DOMAIN ord |->
                                     [id |-> ord[k],
                                      karma_24h |-> annotated[ord[k]]]]]
    /\ UNCHANGED <<users, posts, comments, likes, calls, now, last, tree,
                   seq>>

(* The stores the leaderboard is asked about: user i wrote post i and      *)
(* comment i, and users 1 and 2 like them at hour 0, 1 or 24.  The query   *)
(* comes at hour 25 or 26, so the Likes are 1 to 26 hours old.  Users are  *)
(* interchangeable, so the profiles are drawn in non-decreasing order.     *)
LikeRow(i, k, liker, post, comment, at) ==
    [id |-> 2 * i + k, user |-> liker, post |-> post, comment |-> comment,
     created_at |-> at, xmin |-> Committed, xmax |-> NoTx]

ProfileRows(i, p) ==
    CASE p = 1 -> {}
      [] p = 2 -> {LikeRow(i, 0, 1, NULL, i, KarmaWindowHours)}
      [] p = 3 -> {LikeRow(i, 0, 1, i, NULL, 0),
                   LikeRow(i, 1, 2, NULL, i, KarmaWindowHours)}
      [] p = 4 -> {LikeRow(i, 0, 1, i, NULL, KarmaWindowHours)}
      [] p = 5 -> {LikeRow(i, 0, 1, i, NULL, 1),
                   LikeRow(i, 1, 2, i, NULL, KarmaWindowHours)}

Profiles == 1 .. 5

InitBoard ==
    /\ users = 1 .. MaxBoardUsers
    /\ posts = {[id |-> i, author |-> i] : i \in 1 .. MaxBoardUsers}
    /\ comments = {[id |-> i, post |-> i, author |-> i, parent |-> NULL] :
                      i \in 1 .. MaxBoardUsers}
    /\ \E prof \in [1 .. MaxBoardUsers -> Profiles] :
           /\ \A i \in 1 .. MaxBoardUsers - 1 : prof[i] <= prof[i + 1]
           /\ likes = UNION {ProfileRows(i, prof[i]) :
                                i \in 1 .. MaxBoardUsers}
    /\ now \in {KarmaWindowHours + 1, KarmaWindowHours + 2}
    /\ calls = <<>>
    /\ last = 0
    /\ tree = TreeIdle
    /\ board = BoardIdle
    /\ seq = SeqAt(MaxBoardUsers, MaxBoardUsers, 2 * MaxBoardUsers + 1)

NextBoard == Top

SpecBoard == InitBoard /\ [][NextBoard]_vars

(* the Likes on the posts, and on the comments, of u that were created in  *)
(* the 24 hours up to the instant t                                        *)
WindowPostLikes(u, t) ==
    {r \in LikeTable :
        /\ \E p \in posts : p.id = r.post /\ p.author = u
        /\ t - r.created_at >= 0 /\ t - r.created_at <= 24}

WindowCommentLikes(u, t) ==
    {r \in LikeTable :
        /\ \E c \in comments : c.id = r.comment /\ c.author = u
        /\ t - r.created_at >= 0 /\ t - r.created_at <= 24}

WindowKarma(u, t) ==
    5 * Cardinality(WindowPostLikes(u, t))
        + Cardinality(WindowCommentLikes(u, t))

(* C9: the karma the leaderboard reports for a returned user is 5 times    *)
(* the number of Likes on the user's posts created within the 24 hours     *)
(* before the query plus the number of such Likes on the user's comments;  *)
(* a Like 25 hours old adds 0, a post Like 1 hour old 5, a comment Like 1  *)
(* hour old 1.                                                             *)
C9_KarmaIsWindowedWeightedCount ==
    board.state = "served"
    => \A k \in DOMAIN board.rows :
           board.rows[k].karma_24h = WindowKarma(board.rows[k].id, board.at)

(* a returned user with karma 1: a post Like 25 hours old and a comment    *)
(* Like 1 hour old; and a returned user with karma 5: one post Like 1 hour *)
(* old                                                                     *)
C9_Witness ==
    /\ board.state = "served"
    /\ \E k \in DOMAIN board.rows :
           LET u == board.rows[k].id
           IN /\ board.rows[k].karma_24h = 1
              /\ \E r \in LikeTable : r.post = u /\ board.at - r.created_at = 25
              /\ \E r \in LikeTable : r.comment = u /\ board.at - r.created_at = 1
    /\ \E k \in DOMAIN board.rows :
           LET u == board.rows[k].id
           IN /\ board.rows[k].karma_24h = 5
              /\ {board.at - r.created_at : r \in {x \in LikeTable : x.post = u}} = {1}
              /\ {x \in LikeTable : x.comment = u} = {}

Returned == {board.rows[k].id : k \in DOMAIN board.rows}

(* C10: the result holds at most 5 users, none with windowed karma 0 or    *)
(* less, in order of non-increasing karma, and every user left out has     *)
(* karma 0 or no more karma than each returned user.                       *)
C10_TopFive ==
    board.state = "served"
    => /\ Len(board.rows) <= 5
       /\ Cardinality(Returned) = Len(board.rows)
       /\ \A k \in DOMAIN board.rows :
              WindowKarma(board.rows[k].id, board.at) > 0
       /\ \A k \in DOMAIN board.rows : \A m \in DOMAIN board.rows :
              k < m => board.rows[k].karma_24h >= board.rows[m].karma_24h
       /\ \A u \in users \ Returned :
              \/ WindowKarma(u, board.at) = 0
              \/ \A k \in DOMAIN board.rows :
                     WindowKarma(u, board.at) <= board.rows[k].karma_24h

(* six users have karma, five are returned with different karma values and *)
(* the one left out has karma too                                          *)
C10_Witness ==
    /\ board.state = "served"
    /\ Len(board.rows) = 5
    /\ \E u \in users \ Returned : WindowKarma(u, board.at) > 0
    /\ board.rows[1].karma_24h > board.rows[5].karma_24h

(* ------------------- posts and comments: the REST store ---------------- *)
(* PostViewSet and CommentViewSet are ModelViewSets: create, update (PUT), *)
(* partial_update (PATCH) and destroy behind IsAuthenticatedOrReadOnly.    *)
(* A request body is a function from the names of the fields it carries to *)
(* their values; NULL is the JSON null and the user NULL is the anonymous  *)
(* user.  Requests are served one at a time here.  last is the request     *)
(* just answered: its operation, user, object id and response status, with *)
(* cross (the write asked for a parent on another post) and gone (the      *)
(* numbers of comments and of Likes a delete removed).  The timestamps     *)
(* created_at and updated_at of posts and comments are left out: no        *)
(* request reads them.                                                     *)
MaxStorePosts == 2
MaxStoreComments == 3
MaxStoreLikes == 1
MaxContents == 2
MaxWriters == 1

Contents == 1 .. MaxContents

NoData == [f \in {} |-> NULL]
NoRequest == [op |-> "none", user |-> NULL, id |-> NULL, status |-> "none",
              cross |-> FALSE, gone |-> <<0, 0>>]

Response(op, u, id, st, cross, gone) ==
    [op |-> op, user |-> u, id |-> id, status |-> st, cross |-> cross,
     gone |-> gone]

(* the comment a write asks for: the instance with the fields of the body; *)
(* cross tells that its parent is a stored comment of another post         *)
Asked(instance, data) ==
    [f \in DOMAIN instance |->
        IF f \in DOMAIN data THEN data[f] ELSE instance[f]]

AsksCrossPostParent(instance, data) ==
    LET want == Asked(instance, data)
    IN /\ want.parent \in CommentIds
       /\ want.parent # instance.id
       /\ CommentById(want.parent).post # want.post

NewComment == [id |-> NULL, post |-> NULL, parent |-> NULL]

(* IsAuthenticatedOrReadOnly on an unsafe method *)
IsAuthenticated(u) == u # NULL

(* a field without a default is required unless the update is partial *)
FieldMissing(data, f, partial) == ~partial /\ f \notin DOMAIN data

(* PrimaryKeyRelatedField: null only where the column allows it, and the   *)
(* key must name a row                                                     *)
RelatedFieldInvalid(data, f, ids, allow_null) ==
    /\ f \in DOMAIN data
    /\ IF data[f] = NULL THEN ~allow_null ELSE data[f] \notin ids

(* field validation of Meta.fields = ['content'] and of the one writable   *)
(* field of PostSerializer                                                 *)
PostFieldsValid(data, partial) ==
    /\ ~FieldMissing(data, "content", partial)
    /\ "content" \in DOMAIN data => data["content"] # NULL

(* field validation of post, parent and content *)
CommentFieldsValid(data, partial) ==
    /\ ~FieldMissing(data, "post", partial)
    /\ ~RelatedFieldInvalid(data, "post", PostIds, FALSE)
    /\ ~RelatedFieldInvalid(data, "parent", CommentIds, TRUE)
    /\ ~FieldMissing(data, "content", partial)
    /\ "content" \in DOMAIN data => data["content"] # NULL

(* CreateCommentSerializer.validate: data.get('parent') is a Comment or    *)
(* None                                                                     *)
CreateCommentSerializer_validate(data) ==
    ~(/\ "parent" \in DOMAIN data
      /\ data["parent"] # NULL
      /\ CommentById(data["parent"]).post # data["post"])

(* CommentSerializer defines no validate: Serializer.validate returns the  *)
(* data as they are                                                        *)
CommentSerializer_validate(data) == TRUE

(* the writable fields of each serializer *)
PostWritable == {"content"}
CommentWritable == {"post", "parent", "content"}

(* ModelSerializer.update: setattr for every validated field, then save *)
ModelSerializer_update(instance, data, writable) ==
    [f \in DOMAIN instance |->
        IF f \in writable /\ f \in DOMAIN data THEN data[f] ELSE instance[f]]

(* on_delete=CASCADE of Comment.parent: the comments whose parent is       *)
(* collected are collected too                                             *)
WithReplies(S) == S \cup {c.id : c \in {x \in comments : x.parent \in S}}

(* Collector.collect from a set of comments, to the fixed point *)
RECURSIVE Collect(_)
Collect(S) == IF WithReplies(S) = S THEN S ELSE Collect(WithReplies(S))

(* on_delete=CASCADE of Comment.post, Like.post and Like.comment *)
CommentsOfPosts(P) == {c.id : c \in {x \in comments : x.post \in P}}

LikesOfPostsOnly(P, C) == {r \in likes : r.post \in P}

(* the Likes collected with a set of posts and a set of comments *)
LikesOf(P, C) == {r \in likes : r.post \in P \/ r.comment \in C}

(* Model.delete of a set of posts and a set of comments *)
CascadeDelete(P, C0) ==
    LET C == Collect(C0 \cup CommentsOfPosts(P))
    IN /\ posts' = {p \in posts : p.id \notin P}
       /\ comments' = {c \in comments : c.id \notin C}
       /\ likes' = likes \ LikesOf(P, C)

Frame == UNCHANGED <<users, calls, now, tree, board>>
Rejected(op, u, id, st, cross) ==
    /\ last' = Response(op, u, id, st, cross, <<0, 0>>)
    /\ UNCHANGED <<posts, comments, likes, seq>>

(* PostViewSet.create with CreatePostSerializer *)
Post_create(u, data) ==
    /\ seq.post < MaxStorePosts
    /\ IF ~IsAuthenticated(u)
       THEN Rejected("post_create", u, NULL, "forbidden", FALSE)
       ELSE IF ~PostFieldsValid(data, FALSE)
       THEN Rejected("post_create", u, NULL, "validation_error", FALSE)
       ELSE LET id == seq.post + 1
            IN /\ posts' = posts \cup
                      {[id |-> id, author |-> u, content |-> data["content"]]}
               /\ seq' = [seq EXCEPT !.post = id]
               /\ last' = Response("post_create", u, id, "created", FALSE,
                                   <<0, 0>>)
               /\ UNCHANGED <<comments, likes>>
    /\ Frame

(* PostViewSet.update and partial_update with PostSerializer *)
Post_update(u, id, data, partial) ==
    LET op == IF partial THEN "post_partial_update" ELSE "post_update"
    IN /\ IF ~IsAuthenticated(u)
          THEN Rejected(op, u, id, "forbidden", FALSE)
          ELSE IF id \notin PostIds
          THEN Rejected(op, u, id, "not_found", FALSE)
          ELSE IF ~PostFieldsValid(data, partial)
          THEN Rejected(op, u, id, "validation_error", FALSE)
          ELSE /\ posts' = (posts \ {PostById(id)}) \cup
                      {ModelSerializer_update(PostById(id), data,
                                              PostWritable)}
               /\ last' = Response(op, u, id, "ok", FALSE, <<0, 0>>)
               /\ UNCHANGED <<comments, likes, seq>>
       /\ Frame

(* PostViewSet.destroy *)
Post_destroy(u, id) ==
    /\ IF ~IsAuthenticated(u)
       THEN Rejected("post_destroy", u, id, "forbidden", FALSE)
       ELSE IF id \notin PostIds
       THEN Rejected("post_destroy", u, id, "not_found", FALSE)
       ELSE /\ CascadeDelete({id}, {})
            /\ last' = Response("post_destroy", u, id, "no_content", FALSE,
                           <<Cardinality(comments) - Cardinality(comments'),
                             Cardinality(likes) - Cardinality(likes')>>)
            /\ UNCHANGED seq
    /\ Frame

(* CommentViewSet.create with CreateCommentSerializer *)
Comment_create(u, data) ==
    /\ seq.comment < MaxStoreComments
    /\ IF ~IsAuthenticated(u)
       THEN Rejected("comment_create", u, NULL, "forbidden", FALSE)
       ELSE IF ~CommentFieldsValid(data, FALSE)
               \/ ~CreateCommentSerializer_validate(data)
       THEN Rejected("comment_create", u, NULL, "validation_error",
                     AsksCrossPostParent(NewComment, data))
       ELSE LET id == seq.comment + 1
            IN /\ comments' = comments \cup
                      {[id |-> id, post |-> data["post"], author |-> u,
                        parent |-> IF "parent" \in DOMAIN data
                                   THEN data["parent"] ELSE NULL,
                        content |-> data["content"]]}
               /\ seq' = [seq EXCEPT !.comment = id]
               /\ last' = Response("comment_create", u, id, "created",
                              AsksCrossPostParent(NewComment, data),
                              <<0, 0>>)
               /\ UNCHANGED <<posts, likes>>
    /\ Frame

(* CommentViewSet.update and partial_update with CommentSerializer *)
Comment_update(u, id, data, partial) ==
    LET op == IF partial THEN "comment_partial_update" ELSE "comment_update"
    IN /\ IF ~IsAuthenticated(u)
          THEN Rejected(op, u, id, "forbidden", FALSE)
          ELSE IF id \notin CommentIds
          THEN Rejected(op, u, id, "not_found", FALSE)
          ELSE IF ~CommentFieldsValid(data, partial)
                  \/ ~CommentSerializer_validate(data)
          THEN Rejected(op, u, id, "validation_error",
                        AsksCrossPostParent(CommentById(id), data))
          ELSE /\ comments' = (comments \ {CommentById(id)}) \cup
                      {ModelSerializer_update(CommentById(id), data,
                                              CommentWritable)}
               /\ last' = Response(op, u, id, "ok",
                              AsksCrossPostParent(CommentById(id), data),
                              <<0, 0>>)
               /\ UNCHANGED <<posts, likes, seq>>
       /\ Frame

(* CommentViewSet.destroy *)
Comment_destroy(u, id) ==
    /\ IF ~IsAuthenticated(u)
       THEN Rejected("comment_destroy", u, id, "forbidden", FALSE)
       ELSE IF id \notin CommentIds
       THEN Rejected("comment_destroy", u, id, "not_found", FALSE)
       ELSE /\ CascadeDelete({}, {id})
            /\ last' = Response("comment_destroy", u, id, "no_content", FALSE,
                           <<Cardinality(comments) - Cardinality(comments'),
                             Cardinality(likes) - Cardinality(likes')>>)
            /\ UNCHANGED seq
    /\ Frame

(* LikeViewSet.toggle served alone: validation, the DELETE of the rows the *)
(* filter selects, else Like.objects.create, in one transaction            *)
Like_toggle(u, post_id, comment_id) ==
    LET found == {r \in LikeTable : FilterMatches(r, u, post_id, comment_id)}
        id == seq.like + 1
        row == [CreateRow(id, u, post_id, comment_id)
                    EXCEPT !.xmin = Committed]
    IN /\ seq.like < MaxStoreLikes
       /\ IF ~IsAuthenticated(u)
          THEN Rejected("toggle", u, NULL, "forbidden", FALSE)
          ELSE IF ~LikeSerializer_validate(post_id, comment_id)
          THEN Rejected("toggle", u, NULL, "validation_error", FALSE)
          ELSE IF found # {}
          THEN /\ likes' = likes \ found
               /\ last' = Response("toggle", u, NULL, "unliked", FALSE,
                                   <<0, Cardinality(found)>>)
               /\ UNCHANGED <<posts, comments, seq>>
          ELSE IF Like_clean(row) # "ok"
          THEN Rejected("toggle", u, NULL, "server_error", FALSE)
          ELSE IF UniqueConflicts(row) # {}
          THEN Rejected("toggle", u, NULL, OnIntegrityError, FALSE)
          ELSE /\ likes' = likes \cup {row}
               /\ seq' = [seq EXCEPT !.like = id]
               /\ last' = Response("toggle", u, NULL, "liked", FALSE,
                                   <<0, 0>>)
               /\ UNCHANGED <<posts, comments>>
       /\ Frame

(* the bodies a client can send: any subset of the fields, a content, a    *)
(* post key and a parent key or null; a key names a row of the store or,   *)
(* once that row is deleted, none                                          *)
PostBodies ==
    UNION {[F -> Contents] : F \in SUBSET {"content"}}

CommentBodies ==
    {d \in UNION {[F -> {NULL} \cup (1 .. MaxStoreComments)] :
                     F \in SUBSET {"post", "parent", "content"}} :
        /\ "post" \in DOMAIN d => d["post"] \in 1 .. MaxStorePosts
        /\ "content" \in DOMAIN d => d["content"] \in Contents}

Clients == users \cup {NULL}

(* Posts alone: every client, anonymous included, creates, updates and     *)
(* deletes posts in an empty store.                                        *)
InitPosts ==
    /\ users = 1 .. MaxUsers
    /\ posts = {}
    /\ comments = {}
    /\ likes = {}
    /\ calls = <<>>
    /\ now = 0
    /\ last = NoRequest
    /\ tree = TreeIdle
    /\ board = BoardIdle
    /\ seq = SeqAt(0, 0, 0)

NextPosts ==
    \/ \E u \in Clients, d \in PostBodies : Post_create(u, d)
    \/ \E u \in Clients, i \in 1 .. MaxStorePosts + 1, d \in PostBodies,
          partial \in BOOLEAN : Post_update(u, i, d, partial)
    \/ \E u \in Clients, i \in 1 .. MaxStorePosts + 1 : Post_destroy(u, i)

SpecPosts == InitPosts /\ [][NextPosts]_vars

(* Threads: the store holds MaxStorePosts posts; the first MaxWriters      *)
(* users, signed in, write, move and delete comments, like posts and       *)
(* comments, and delete posts.  Every comment body carries the same        *)
(* content.                                                                *)
Writers == {u \in users : u <= MaxWriters}

ThreadBodies ==
    {d \in CommentBodies :
        IF "content" \in DOMAIN d THEN d["content"] = 1 ELSE d = NoData}

InitThreads ==
    /\ users = 1 .. MaxUsers
    /\ posts = {[id |-> i, author |-> ((i - 1) % MaxUsers) + 1,
                 content |-> 1] : i \in 1 .. MaxStorePosts}
    /\ comments = {}
    /\ likes = {}
    /\ calls = <<>>
    /\ now = 0
    /\ last = NoRequest
    /\ tree = TreeIdle
    /\ board = BoardIdle
    /\ seq = SeqAt(MaxStorePosts, 0, 0)

NextThreads ==
    \/ \E u \in Writers, i \in 1 .. MaxStorePosts : Post_destroy(u, i)
    \/ \E u \in Writers, d \in ThreadBodies : Comment_create(u, d)
    \/ \E u \in Writers, i \in 1 .. MaxStoreComments, d \in ThreadBodies,
          partial \in BOOLEAN : Comment_update(u, i, d, partial)
    \/ \E u \in Writers, i \in 1 .. MaxStoreComments : Comment_destroy(u, i)
    \/ \E u \in Writers, p \in IdInputs(MaxStorePosts),
          c \in IdInputs(MaxStoreComments) : Like_toggle(u, p, c)

SpecThreads == InitThreads /\ [][NextThreads]_vars

(* ---------------- properties of the posts and the threads -------------- *)
SamePostParents ==
    \A c \in comments :
        c.parent # NULL
        => \A p \in comments : p.id = c.parent => p.post = c.post

(* C11 as stated: after every comment operation each stored comment with a *)
(* parent is on the post of its parent, and a write that asks for a parent *)
(* on another post is answered with a validation error and changes         *)
(* nothing.                                                                *)
C11_ParentOnSamePost ==
    [][/\ SamePostParents'
       /\ last'.cross => /\ last'.status = "validation_error"
                         /\ UNCHANGED <<posts, comments, likes>>]_vars

(* C12: after any sequence of operations no comment refers to a post or a  *)
(* parent that is gone and no Like to a post or a comment that is gone;    *)
(* after a post is deleted none of its comments and Likes is left, after a *)
(* comment is deleted none of its replies and Likes is left.               *)
C12_NoDanglingReference ==
    /\ \A c \in comments :
           /\ c.post \in PostIds
           /\ c.parent # NULL => c.parent \in CommentIds
    /\ \A r \in likes :
           /\ r.post # NULL => r.post \in PostIds
           /\ r.comment # NULL => r.comment \in CommentIds
    /\ (last.op = "post_destroy" /\ last.status = "no_content")
       => /\ last.id \notin PostIds
          /\ \A c \in comments : c.post # last.id
          /\ \A r \in likes : r.post # last.id
    /\ (last.op = "comment_destroy" /\ last.status = "no_content")
       => /\ last.id \notin CommentIds
          /\ \A c \in comments : c.parent # last.id
          /\ \A r \in likes : r.comment # last.id

(* a comment was deleted with a reply, a reply to that reply and a Like on *)
(* one of the three, and the post is still there                           *)
C12_Witness ==
    /\ last.op = "comment_destroy" /\ last.status = "no_content"
    /\ last.gone = <<3, 1>>
    /\ posts # {}

(* C13 as stated: the content of a post changes only in an update request  *)
(* of its author, and an update request of another user leaves the posts   *)
(* as they are.                                                            *)
C13_OnlyAuthorChangesContent ==
    [][/\ \A p \in posts : \A q \in posts' :
              (p.id = q.id /\ p.content # q.content)
              => /\ last'.op \in {"post_update", "post_partial_update"}
                 /\ last'.id = p.id
                 /\ last'.user = p.author
       /\ \A p \in posts :
              (/\ last'.op \in {"post_update", "post_partial_update"}
               /\ last'.id = p.id
               /\ last'.user # p.author)
              => posts' = posts]_vars

(* -------------------- the queries of a post-detail request ------------- *)
(* The request GET /posts/<id>/ in three steps: get_object with the        *)
(* prefetches of _prefetch_comment_tree, _build_comment_tree, and          *)
(* serializer.data.  tree.viewer is request.user (NULL: anonymous);        *)
(* tree.fetch counts the queries of the bulk fetch, tree.post_queries      *)
(* those of the fields of the post and tree.tree_queries those of          *)
(* serializing the comment tree.                                           *)

(* the post with its annotations, the comments prefetch and, for a         *)
(* signed-in viewer, the post_likes prefetch to _user_likes                *)
prefetch_comment_tree_queries(viewer) ==
    IF viewer # NULL THEN 3 ELSE 2

(* get_like_count: getattr(obj, 'annotated_like_count', obj.like_count)    *)
(* evaluates its default obj.like_count, the property that runs            *)
(* comment_likes.count() or post_likes.count(), before getattr is called   *)
get_like_count_queries(annotated) == 1

(* get_user_has_liked: False without a signed-in viewer, _user_likes where *)
(* the object carries it, else filter(user=...).exists()                   *)
get_user_has_liked_queries(viewer, has_user_likes) ==
    IF viewer = NULL THEN 0
    ELSE IF has_user_likes THEN 0
    ELSE 1

(* get_replies: _prefetched_replies where the comment carries it, else     *)
(* obj.replies.all()                                                       *)
get_replies_queries(id, has) == IF id \in has THEN 0 ELSE 1

(* CommentSerializer(many=True).data over a list of comments, replies      *)
(* included: the queries it issues.  Only the post gets _user_likes        *)
(* (views.py 96-103), a comment never does.                                *)
RECURSIVE CommentSerializer_queries(_, _, _)
CommentSerializer_queries(ids, built, viewer) ==
    IF ids = <<>> THEN 0
    ELSE get_like_count_queries(TRUE)
         + get_user_has_liked_queries(viewer, FALSE)
         + get_replies_queries(Head(ids), built.has)
         + CommentSerializer_queries(built.replies[Head(ids)], built, viewer)
         + CommentSerializer_queries(Tail(ids), built, viewer)

(* self.get_object() in retrieve *)
Detail_GetObject ==
    /\ tree.state = "requested"
    /\ tree' = [tree EXCEPT !.state = "fetched",
                    !.fetch = prefetch_comment_tree_queries(tree.viewer)]
    /\ UNCHANGED <<users, posts, comments, likes, calls, now, last, board,
                   seq>>

(* self._build_comment_tree(instance) in retrieve *)
Detail_BuildTree ==
    /\ tree.state = "fetched"
    /\ LET built == build_comment_tree(tree.prefetched)
       IN tree' = [tree EXCEPT !.state = "built", !.has = built.has,
                       !.replies = built.replies]
    /\ UNCHANGED <<users, posts, comments, likes, calls, now, last, board,
                   seq>>

(* serializer.data in retrieve: the fields of PostDetailSerializer, the    *)
(* comment tree from get_comments                                          *)
Detail_Serialize ==
    /\ tree.state = "built"
    /\ LET top == get_comments(tree.prefetched)
           built == [has |-> tree.has, replies |-> tree.replies]
       IN tree' = [tree EXCEPT
               !.state = "served", !.top = top,
               !.post_queries =
                   get_like_count_queries(TRUE)
                   + get_user_has_liked_queries(tree.viewer,
                                                tree.viewer # NULL),
               !.tree_queries =
                   CommentSerializer_queries(top, built, tree.viewer)]
    /\ UNCHANGED <<users, posts, comments, likes, calls, now, last, board,
                   seq>>

(* a request by the anonymous user or by a user, for a post whose comments *)
(* are one of TreeInputs                                                   *)
InitDetail ==
    /\ users = 1 .. MaxUsers
    /\ posts = {}
    /\ comments = {}
    /\ likes = {}
    /\ calls = <<>>
    /\ now = 0
    /\ last = 0
    /\ board = BoardIdle
    /\ seq = SeqAt(0, 0, 0)
    /\ \E input \in TreeInputs, viewer \in users \cup {NULL} :
           tree = [state |-> "requested", viewer |-> viewer,
                   prefetched |-> input, has |-> {},
                   replies |-> [i \in TreeIds(input) |-> <<>>], top |-> <<>>,
                   fetch |-> 0, post_queries |-> 0, tree_queries |-> 0]

NextDetail ==
    \/ Detail_GetObject
    \/ Detail_BuildTree
    \/ Detail_Serialize

SpecDetail == InitDetail /\ [][NextDetail]_vars

(* C14 as stated: for an anonymous and for a signed-in viewer alike,       *)
(* serializing the comment tree issues no query after the bulk fetch and   *)
(* the tree build, so the queries of the request do not grow with the      *)
(* number of comments.                                                     *)
C14_NoQueryWhileSerializing ==
    tree.state = "served"
    => /\ tree.tree_queries = 0
       /\ tree.fetch + tree.post_queries + tree.tree_queries
              <= prefetch_comment_tree_queries(tree.viewer) + 1

(* ---------------------- the frame of a toggle request ------------------ *)
(* the Like row r is the row of the user of call c on the target that the  *)
(* request of c names                                                      *)
NamedRow(r, c) ==
    /\ r.user = calls[c].user
    /\ \/ /\ calls[c].post_id # NULL
          /\ r.post = calls[c].post_id /\ r.comment = NULL
       \/ /\ calls[c].comment_id # NULL
          /\ r.comment = calls[c].comment_id /\ r.post = NULL

(* C15 as stated: whatever ids a toggle request supplies and whatever it   *)
(* reports, the only Like row it inserts or deletes is the row of its user *)
(* on the target it names; the posts and the comments stay as they were.   *)
C15_ToggleTouchesOnlyNamedRow ==
    /\ \A c \in DOMAIN calls : \A r \in likes :
           (r.id = c \/ r.xmax = c) => NamedRow(r, c)
    /\ posts = {[id |-> i, author |-> ((i - 1) % MaxUsers) + 1] :
                   i \in 1 .. MaxPosts}
    /\ comments = {[id |-> i, post |-> 1, author |-> (i % MaxUsers) + 1,
                    parent |-> NULL] : i \in 1 .. MaxComments}

(* ---------------- toggles, the clock and the leaderboard --------------- *)
(* Toggle requests served one after the other on the store of Init, with   *)
(* time passing between requests and the leaderboard asked MaxBoards       *)
(* times.  board keeps, with each answer, the number of toggle requests    *)
(* answered before it (seen) and the answer before it (before).            *)
MaxTicks == 2
MaxBoards == 2

(* the clock advances by one hour more than the karma window *)
TickHours == KarmaWindowHours + 1

Tick ==
    /\ Active = {}
    /\ now < MaxTicks * TickHours
    /\ now' = now + TickHours
    /\ last' = 0
    /\ UNCHANGED <<users, posts, comments, likes, calls, tree, board, seq>>

NoBoard == [at |-> 0, rows |-> <<>>, seen |-> 0]
BoardLog == [state |-> "idle", at |-> 0, rows |-> <<>>, seen |-> 0, n |-> 0,
             before |-> NoBoard]

(* LeaderboardViewSet.top, asked between two toggle requests *)
Leaderboard_top ==
    /\ Active = {}
    /\ board.n < MaxBoards
    /\ LET annotated == [u \in users |-> karma_24h(u)]
       IN \E ord \in OrderByKarmaDescLimit(
                          {u \in users : karma_filter(u)}, annotated, TopN) :
              board' = [state |-> "served", at |-> now,
                        rows |-> [k \in DOMAIN ord |->
                                     [id |-> ord[k],
                                      karma_24h |-> annotated[ord[k]]]],
                        seen |-> Len(calls), n |-> board.n + 1,
                        before |-> [at |-> board.at, rows |-> board.rows,
                                    seen |-> board.seen]]
    /\ UNCHANGED <<users, posts, comments, likes, calls, now, last, tree,
                   seq>>

InitKarma ==
    /\ users = 1 .. MaxUsers
    /\ posts = {[id |-> i, author |-> ((i - 1) % MaxUsers) + 1] :
                   i \in 1 .. MaxPosts}
    /\ comments = {[id |-> i, post |-> 1, author |-> (i % MaxUsers) + 1,
                    parent |-> NULL] : i \in 1 .. MaxComments}
    /\ likes = {}
    /\ calls = <<>>
    /\ now = 0
    /\ last = 0
    /\ tree = TreeIdle
    /\ board = BoardLog
    /\ seq = SeqAt(MaxPosts, MaxComments, 0)

NextKarma ==
    \/ \E u \in users, p \in IdInputs(MaxPosts), c \in IdInputs(MaxComments) :
           /\ Active = {}
           /\ ValidRequest(p, c)
           /\ Toggle_Request(u, p, c)
    \/ \E c \in DOMAIN calls : Toggle_DeleteScan(c)
    \/ \E c \in DOMAIN calls : Toggle_DeleteRows(c)
    \/ \E c \in DOMAIN calls : Toggle_Create(c)
    \/ \E c \in DOMAIN calls : Toggle_Commit(c)
    \/ Tick
    \/ Leaderboard_top

SpecKarma == InitKarma /\ [][NextKarma]_vars

(* the karma a leaderboard answer shows for user u: a user it leaves out   *)
(* has none                                                                *)
ShownKarma(rows, u) ==
    IF \E k \in DOMAIN rows : rows[k].id = u
    THEN (CHOOSE x \in Range(rows) : x.id = u).karma_24h
    ELSE 0

TargetAuthor(i) ==
    IF calls[i].post_id # NULL THEN PostById(calls[i].post_id).author
    ELSE CommentById(calls[i].comment_id).author

(* C16 as stated: when u likes t already, two toggle(u, t) calls in a row  *)
(* leave the 24-hour karma of the author of t, asked right after the       *)
(* second, equal to the karma asked right before the first, whatever the   *)
(* age of the original Like.                                               *)
C16_TwoTogglesRestoreKarma ==
    (/\ board.n = 2
     /\ board.seen = board.before.seen + 2
     /\ board.at = board.before.at
     /\ SameKey(board.seen - 1, board.seen)
     /\ OnTarget(board.seen)
     /\ calls[board.seen - 1].keyBefore = 1)
    => ShownKarma(board.rows, TargetAuthor(board.seen))
           = ShownKarma(board.before.rows, TargetAuthor(board.seen))

====
